---- MODULE Spec2Model ----
(***************************************************************************)
(* Model of the efpmd input loader, src/efpmd/src/parse.c.                 *)
(*                                                                         *)
(* Text is modelled character by character: a C string is a TLA+ string,   *)
(* a char pointer into the current line is a 0-based offset into it, the   *)
(* terminating NUL is the offset Len(s), whose character is "" (NUL).      *)
(*                                                                         *)
(* A double is modelled exactly as a decimal m * 10^e, carried together    *)
(* with the number of FS_TO_AU factors (fs) and of 1/BOHR_RADIUS factors   *)
(* (br) it has been multiplied by; both constants come from common.h and   *)
(* stay symbolic.  Binary rounding, overflow, and the "inf", "nan" and     *)
(* hexadecimal forms of strtod are outside the model: no input drawn below *)
(* uses them, nor an integer outside the range of int.                     *)
(***************************************************************************)
EXTENDS Integers, Sequences, FiniteSets, TLC

VARIABLES
    file,        \* the bytes of the input file (fixed during a load)
    src,         \* the pieces of text the file was assembled from (history)
    pc,          \* position of parse_config
    err,         \* message passed to error(), "" while none was raised
    config,      \* struct config *config
    stream,      \* struct stream stream, with allocation counters
    in_open,     \* whether stream.in is an open FILE
    shapes,      \* coord_type argument of each parse_frag call (history)
    check_calls  \* number of check_fn invocations so far (history)

vars == <<file, src, pc, err, config, stream, in_open, shapes, check_calls>>

-----------------------------------------------------------------------------
(* Bounds of the model.                                                    *)

MaxChunks == 3

-----------------------------------------------------------------------------
(* Characters and C library helpers.                                       *)

NULL == -1

NUL == ""

Ch(s, p) == IF p >= 0 /\ p < Len(s) THEN SubSeq(s, p + 1, p + 1) ELSE NUL

isspace(c) == c \in {" ", "\t", "\n", "\r", "\f"}

Digits == "0123456789"

isdigit(c) == \E i \in 1..10 : SubSeq(Digits, i, i) = c

DigitVal(c) == (CHOOSE i \in 1..10 : SubSeq(Digits, i, i) = c) - 1

UpperCase == "ABCDEFGHIJKLMNOPQRSTUVWXYZ"

LowerCase == "abcdefghijklmnopqrstuvwxyz"

tolower(c) ==
    IF \E i \in 1..26 : SubSeq(UpperCase, i, i) = c
    THEN LET i == CHOOSE k \in 1..26 : SubSeq(UpperCase, k, k) = c
         IN  SubSeq(LowerCase, i, i)
    ELSE c

strlen(s) == Len(s)

\* strncmp(a + pa, b + pb, n) == 0
RECURSIVE strneqAt(_, _, _, _, _)
strneqAt(a, pa, b, pb, n) ==
    IF n = 0 THEN TRUE
    ELSE IF Ch(a, pa) # Ch(b, pb) THEN FALSE
    ELSE IF Ch(a, pa) = NUL THEN TRUE
    ELSE strneqAt(a, pa + 1, b, pb + 1, n - 1)

u_strndup(s, start, len) == SubSeq(s, start + 1, start + len)

\* F applied to the value of v, which is computed once.
Given(v, F(_)) == CHOOSE y \in {F(x) : x \in {v}} : TRUE

-----------------------------------------------------------------------------
(* Doubles.                                                                *)

RECURSIVE NormDec(_, _)
NormDec(m, e) ==
    IF m = 0 THEN [m |-> 0, e |-> 0]
    ELSE IF m % 10 = 0 THEN NormDec(m \div 10, e + 1)
    ELSE [m |-> m, e |-> e]

Dbl(m, e, fs, br) ==
    LET d == NormDec(m, e)
    IN  IF d.m = 0 THEN [m |-> 0, e |-> 0, fs |-> 0, br |-> 0]
        ELSE [m |-> d.m, e |-> d.e, fs |-> fs, br |-> br]

Dec(m, e) == Dbl(m, e, 0, 0)

Zero == Dec(0, 0)

One == Dec(1, 0)

FS_TO_AU == Dbl(1, 0, 1, 0)

INV_BOHR_RADIUS == Dbl(1, 0, 0, 1)

Mul(x, y) == Dbl(x.m * y.m, x.e + y.e, x.fs + y.fs, x.br + y.br)

-----------------------------------------------------------------------------
(* Line reader.                                                            *)

\* Offset of the first '\n' at or after pos, or Len(data) at end of file.
RECURSIVE ScanLine(_, _)
ScanLine(data, pos) ==
    IF pos >= Len(data) \/ Ch(data, pos) = "\n" THEN pos
    ELSE ScanLine(data, pos + 1)

\* read_line(in): <<>> is NULL, <<text>> a freshly allocated buffer; in is
\* the position of the FILE after the call.
read_line(data, pos) ==
    IF pos >= Len(data)
    THEN [buffer |-> <<>>, in |-> pos]
    ELSE [buffer |-> <<SubSeq(data, pos + 1, ScanLine(data, pos))>>,
          in |-> IF ScanLine(data, pos) < Len(data)
                 THEN ScanLine(data, pos) + 1 ELSE ScanLine(data, pos)]

RECURSIVE LowerAll(_)
LowerAll(s) == IF s = "" THEN "" ELSE tolower(Head(s)) \o LowerAll(Tail(s))

\* next_line once read_line has returned r.
next_line_got(st, r) ==
    [buffer |-> IF r.buffer = <<>> THEN <<>> ELSE <<LowerAll(r.buffer[1])>>,
     ptr    |-> IF r.buffer = <<>> THEN NULL ELSE 0,
     in     |-> r.in,
     nalloc |-> st.nalloc + (IF r.buffer = <<>> THEN 0 ELSE 1),
     nfreed |-> st.nfreed + (IF st.buffer = <<>> THEN 0 ELSE 1),
     faults |-> st.faults]

next_line(st) ==
    Given(read_line(file, st.in), LAMBDA r : next_line_got(st, r))

\* The text of the current line (only used where the buffer is not NULL).
Line(st) == IF st.buffer = <<>> THEN "" ELSE st.buffer[1]

RECURSIVE SkipWs(_, _)
SkipWs(s, p) == IF isspace(Ch(s, p)) THEN SkipWs(s, p + 1) ELSE p

skip_space(st) ==
    IF st.ptr # NULL THEN [st EXCEPT !.ptr = SkipWs(Line(st), st.ptr)] ELSE st

\* The cursor may be read: it points into the current buffer, at or before
\* its terminator.
ValidCursor(st) ==
    /\ st.buffer # <<>>
    /\ st.ptr # NULL
    /\ st.ptr >= 0
    /\ st.ptr <= Len(Line(st))

\* A read of *stream->ptr by the loader (the parsers test the cursor they
\* are given); faults counts the reads made with an invalid cursor.
deref(st) ==
    IF ValidCursor(st) THEN st ELSE [st EXCEPT !.faults = st.faults + 1]

-----------------------------------------------------------------------------
(* Scalar parsers: (line, cursor, old slot value) -> [ok, ptr, out].       *)

RECURSIVE ScanUntilQuote(_, _)
ScanUntilQuote(s, p) ==
    IF Ch(s, p) # NUL /\ Ch(s, p) # "\"" THEN ScanUntilQuote(s, p + 1) ELSE p

RECURSIVE ScanNonSpace(_, _)
ScanNonSpace(s, p) ==
    IF Ch(s, p) # NUL /\ ~isspace(Ch(s, p)) THEN ScanNonSpace(s, p + 1) ELSE p

Fail(p, old) == [ok |-> FALSE, ptr |-> p, out |-> old]

\* parse_string with ptr past the leading space: the quoted form, whose
\* closing quote (or the end of line) is at e.
parse_string_quoted(s, p, old, q, e) ==
    IF Ch(s, e) = NUL THEN Fail(p, old)
    ELSE [ok |-> TRUE, ptr |-> e + 1,
          out |-> <<u_strndup(s, q + 1, e - (q + 1))>>]

\* The bare form, which ends at e.
parse_string_bare(s, p, old, q, e) ==
    [ok |-> TRUE, ptr |-> e, out |-> <<u_strndup(s, q, e - q)>>]

parse_string_at(s, p, old, q) ==
    IF Ch(s, q) = NUL THEN Fail(p, old)
    ELSE IF Ch(s, q) = "\""
    THEN Given(ScanUntilQuote(s, q + 1),
               LAMBDA e : parse_string_quoted(s, p, old, q, e))
    ELSE Given(ScanNonSpace(s, q),
               LAMBDA e : parse_string_bare(s, p, old, q, e))

parse_string(s, p, old) ==
    IF p = NULL THEN Fail(p, old)
    ELSE Given(SkipWs(s, p), LAMBDA q : parse_string_at(s, p, old, q))

\* A run of decimal digits from p: end offset, accumulated value, count.
RECURSIVE ScanDigits(_, _, _, _)
ScanDigits(s, p, acc, n) ==
    IF isdigit(Ch(s, p))
    THEN ScanDigits(s, p + 1, 10 * acc + DigitVal(Ch(s, p)), n + 1)
    ELSE [ptr |-> p, acc |-> acc, n |-> n]

\* Optional sign at p: offset after it and the sign.
ScanSign(s, p) ==
    IF Ch(s, p) = "-" THEN [ptr |-> p + 1, sgn |-> -1]
    ELSE IF Ch(s, p) = "+" THEN [ptr |-> p + 1, sgn |-> 1]
    ELSE [ptr |-> p, sgn |-> 1]

\* strtol(s + p, &endptr, 10); endptr = p when no digits were consumed.
strtol_digits(p, sg, d) ==
    IF d.n = 0 THEN [endptr |-> p, val |-> 0]
    ELSE [endptr |-> d.ptr, val |-> sg.sgn * d.acc]

strtol_signed(s, p, sg) ==
    Given(ScanDigits(s, sg.ptr, 0, 0), LAMBDA d : strtol_digits(p, sg, d))

strtol(s, p) ==
    Given(ScanSign(s, SkipWs(s, p)), LAMBDA sg : strtol_signed(s, p, sg))

\* strtod(s + p, &endptr) on decimal literals: sign sg, ndig digits in
\* all, the mantissa digits ending at fp with fp.n of them after the
\* point, and after an 'e' the sign xs and the digits xd.
strtod_value(s, p, sg, ndig, fp, xs, xd) ==
    IF ndig = 0 THEN [endptr |-> p, val |-> Zero]
    ELSE IF Ch(s, fp.ptr) = "e" /\ xd.n > 0
    THEN [endptr |-> xd.ptr,
          val |-> Dec(sg.sgn * fp.acc, xs.sgn * xd.acc - fp.n)]
    ELSE [endptr |-> fp.ptr, val |-> Dec(sg.sgn * fp.acc, 0 - fp.n)]

strtod_exponent(s, p, sg, ndig, fp, xs) ==
    Given(ScanDigits(s, xs.ptr, 0, 0),
          LAMBDA xd : strtod_value(s, p, sg, ndig, fp, xs, xd))

strtod_fraction(s, p, sg, ip, fp) ==
    Given(ScanSign(s, fp.ptr + 1),
          LAMBDA xs : strtod_exponent(s, p, sg, ip.n + fp.n, fp, xs))

strtod_digits(s, p, sg, ip) ==
    Given(IF Ch(s, ip.ptr) = "."
          THEN ScanDigits(s, ip.ptr + 1, ip.acc, 0)
          ELSE [ptr |-> ip.ptr, acc |-> ip.acc, n |-> 0],
          LAMBDA fp : strtod_fraction(s, p, sg, ip, fp))

strtod_signed(s, p, sg) ==
    Given(ScanDigits(s, sg.ptr, 0, 0), LAMBDA ip : strtod_digits(s, p, sg, ip))

strtod(s, p) ==
    Given(ScanSign(s, SkipWs(s, p)), LAMBDA sg : strtod_signed(s, p, sg))

\* The tail of parse_int and parse_double, r being what strtol or strtod
\* returned.
parse_number(p, old, r) ==
    IF r.endptr = p THEN Fail(p, old)
    ELSE [ok |-> TRUE, ptr |-> r.endptr, out |-> r.val]

parse_int(s, p, old) ==
    IF p = NULL THEN Fail(p, old)
    ELSE Given(strtol(s, p), LAMBDA r : parse_number(p, old, r))

parse_double(s, p, old) ==
    IF p = NULL THEN Fail(p, old)
    ELSE Given(strtod(s, p), LAMBDA r : parse_number(p, old, r))

-----------------------------------------------------------------------------
(* Enumeration matcher and the enumerated options.                         *)

\* strchr(names + q, '\n'), NULL when there is none.
strchr_nl(names, q) ==
    IF ScanLine(names, q) < Len(names) THEN ScanLine(names, q) ELSE NULL

\* One iteration of the for loop of parse_enum, on the name at offset q of
\* names, the value index being vi.
RECURSIVE parse_enum_at(_, _, _, _, _, _, _)
parse_enum_at(s, p, old, names, values, q, vi) ==
    IF strneqAt(s, p, names, q, ScanLine(names, q) - q)
    THEN [ok |-> TRUE, ptr |-> p + (ScanLine(names, q) - q),
          out |-> values[vi]]
    ELSE IF strchr_nl(names, q) = NULL THEN Fail(p, old)
    ELSE parse_enum_at(s, p, old, names, values,
                       strchr_nl(names, q) + 1, vi + 1)

parse_enum(s, p, old, names, values) ==
    parse_enum_at(s, p, old, names, values, 0, 1)

run_type_names == "sp\ngrad\nhess\nopt\nmd"

run_type_values ==
    <<"RUN_TYPE_SP", "RUN_TYPE_GRAD", "RUN_TYPE_HESS", "RUN_TYPE_OPT",
      "RUN_TYPE_MD">>

parse_run_type(s, p, old) ==
    parse_enum(s, p, old, run_type_names, run_type_values)

coord_names == "points\nxyzabc\nrotmat"

coord_values ==
    <<"EFP_COORD_TYPE_POINTS", "EFP_COORD_TYPE_XYZABC",
      "EFP_COORD_TYPE_ROTMAT">>

parse_coord(s, p, old) == parse_enum(s, p, old, coord_names, coord_values)

units_names == "bohr\nangs"

units_values == <<One, INV_BOHR_RADIUS>>

parse_units(s, p, old) == parse_enum(s, p, old, units_names, units_values)

elec_damp_names == "screen\noverlap\noff"

elec_damp_values ==
    <<"EFP_ELEC_DAMP_SCREEN", "EFP_ELEC_DAMP_OVERLAP", "EFP_ELEC_DAMP_OFF">>

parse_elec_damp(s, p, old) ==
    parse_enum(s, p, old, elec_damp_names, elec_damp_values)

disp_damp_names == "tt\noverlap\noff"

disp_damp_values ==
    <<"EFP_DISP_DAMP_TT", "EFP_DISP_DAMP_OVERLAP", "EFP_DISP_DAMP_OFF">>

parse_disp_damp(s, p, old) ==
    parse_enum(s, p, old, disp_damp_names, disp_damp_values)

pol_damp_names == "tt\noff"

pol_damp_values == <<"EFP_POL_DAMP_TT", "EFP_POL_DAMP_OFF">>

parse_pol_damp(s, p, old) ==
    parse_enum(s, p, old, pol_damp_names, pol_damp_values)

\* Mutant: the first name is abbreviated.
ensemble_names_abbreviated == "nv\nnvt"

ensemble_names == "nve\nnvt"

ensemble_values == <<"ENSEMBLE_TYPE_NVE", "ENSEMBLE_TYPE_NVT">>

parse_ensemble(s, p, old) ==
    parse_enum(s, p, old, ensemble_names, ensemble_values)

\* list[] of parse_terms; the bit set is the set of the enumerators.
terms_list ==
    << [name |-> "elec", value |-> "EFP_TERM_ELEC"],
       [name |-> "pol",  value |-> "EFP_TERM_POL"],
       [name |-> "disp", value |-> "EFP_TERM_DISP"],
       [name |-> "xr",   value |-> "EFP_TERM_XR"] >>

\* Index of the first entry of list[] that matches at ptr, 0 when none.
terms_match(s, ptr) ==
    IF \E i \in 1..Len(terms_list) :
          strneqAt(terms_list[i].name, 0, s, ptr, strlen(terms_list[i].name))
    THEN CHOOSE i \in 1..Len(terms_list) :
          /\ strneqAt(terms_list[i].name, 0, s, ptr, strlen(terms_list[i].name))
          /\ \A k \in 1..(i - 1) :
                ~strneqAt(terms_list[k].name, 0, s, ptr,
                          strlen(terms_list[k].name))
    ELSE 0

\* The while loop of parse_terms; parse_terms_next is its body once the
\* scan of list[] has ended with index i.
RECURSIVE parse_terms_from(_, _, _, _, _)
parse_terms_next(s, p, old, ptr, terms, i) ==
    IF i = 0 THEN Fail(p, old)
    ELSE parse_terms_from(s, p, old,
             SkipWs(s, ptr + strlen(terms_list[i].name)),
             terms \cup {terms_list[i].value})

parse_terms_from(s, p, old, ptr, terms) ==
    IF Ch(s, ptr) = NUL
    THEN [ok |-> terms # {}, ptr |-> ptr, out |-> terms]
    ELSE Given(terms_match(s, ptr),
               LAMBDA i : parse_terms_next(s, p, old, ptr, terms, i))

parse_terms(s, p, old) == parse_terms_from(s, p, old, p, {})

int_gt_zero(val) == val > 0

\* Mutant: the validator accepts zero.
double_ge_zero(val) == val.m >= 0

double_gt_zero(val) == val.m > 0

-----------------------------------------------------------------------------
(* Option table.                                                           *)

EFP_DATA_DIR == "/usr/share/libefp/fraglib"

config_list ==
    << [name |-> "run_type", default_value |-> "sp",
        parse_fn |-> "parse_run_type", check_fn |-> "NULL",
        member |-> "run_type"],
       [name |-> "coord", default_value |-> "xyzabc",
        parse_fn |-> "parse_coord", check_fn |-> "NULL",
        member |-> "coord_type"],
       [name |-> "units", default_value |-> "angs",
        parse_fn |-> "parse_units", check_fn |-> "NULL",
        member |-> "units_factor"],
       [name |-> "terms", default_value |-> "elec pol disp xr",
        parse_fn |-> "parse_terms", check_fn |-> "NULL",
        member |-> "terms"],
       [name |-> "elec_damp", default_value |-> "screen",
        parse_fn |-> "parse_elec_damp", check_fn |-> "NULL",
        member |-> "elec_damp"],
       [name |-> "disp_damp", default_value |-> "tt",
        parse_fn |-> "parse_disp_damp", check_fn |-> "NULL",
        member |-> "disp_damp"],
       [name |-> "pol_damp", default_value |-> "tt",
        parse_fn |-> "parse_pol_damp", check_fn |-> "NULL",
        member |-> "pol_damp"],
       [name |-> "hess_delta", default_value |-> "0.001",
        parse_fn |-> "parse_double", check_fn |-> "double_gt_zero",
        member |-> "hess_delta"],
       [name |-> "max_steps", default_value |-> "100",
        parse_fn |-> "parse_int", check_fn |-> "int_gt_zero",
        member |-> "max_steps"],
       [name |-> "print_step", default_value |-> "1",
        parse_fn |-> "parse_int", check_fn |-> "int_gt_zero",
        member |-> "print_step"],
       [name |-> "temperature", default_value |-> "300.0",
        parse_fn |-> "parse_double", check_fn |-> "double_gt_zero",
        member |-> "target_temperature"],
       [name |-> "time_step", default_value |-> "1.0",
        parse_fn |-> "parse_double", check_fn |-> "double_gt_zero",
        member |-> "time_step"],
       [name |-> "ensemble", default_value |-> "nve",
        parse_fn |-> "parse_ensemble", check_fn |-> "NULL",
        member |-> "ensemble_type"],
       [name |-> "thermostat_tau", default_value |-> "1.0e3",
        parse_fn |-> "parse_double", check_fn |-> "double_gt_zero",
        member |-> "thermostat_tau"],
       [name |-> "opt_tol", default_value |-> "1.0e-4",
        parse_fn |-> "parse_double", check_fn |-> "double_gt_zero",
        member |-> "opt_tol"],
       [name |-> "fraglib_path", default_value |-> EFP_DATA_DIR,
        parse_fn |-> "parse_string", check_fn |-> "NULL",
        member |-> "fraglib_path"],
       [name |-> "userlib_path", default_value |-> ".",
        parse_fn |-> "parse_string", check_fn |-> "NULL",
        member |-> "userlib_path"] >>

\* Call through config_list[i].parse_fn.
parse_fn(fn, s, p, old) ==
    CASE fn = "parse_run_type"  -> parse_run_type(s, p, old)
      [] fn = "parse_coord"     -> parse_coord(s, p, old)
      [] fn = "parse_units"     -> parse_units(s, p, old)
      [] fn = "parse_terms"     -> parse_terms(s, p, old)
      [] fn = "parse_elec_damp" -> parse_elec_damp(s, p, old)
      [] fn = "parse_disp_damp" -> parse_disp_damp(s, p, old)
      [] fn = "parse_pol_damp"  -> parse_pol_damp(s, p, old)
      [] fn = "parse_ensemble"  -> parse_ensemble(s, p, old)
      [] fn = "parse_int"       -> parse_int(s, p, old)
      [] fn = "parse_double"    -> parse_double(s, p, old)
      [] fn = "parse_string"    -> parse_string(s, p, old)

\* Call through config_list[i].check_fn (not NULL).
check_fn(fn, val) ==
    CASE fn = "int_gt_zero"    -> int_gt_zero(val)
      [] fn = "double_gt_zero" -> double_gt_zero(val)

-----------------------------------------------------------------------------
(* Configuration record.                                                   *)

\* Capacity of frag.coord and of frag.vel (struct frag).
COORD_SIZE == 12

VEL_SIZE == 6

\* memset(frag, 0, sizeof(struct frag)): NULL name, all values 0.0.
ZeroFrag ==
    [name  |-> <<>>,
     coord |-> [i \in 1..COORD_SIZE |-> Zero],
     vel   |-> [i \in 1..VEL_SIZE |-> Zero]]

\* memset(config, 0, sizeof(struct config)).
ZeroConfig ==
    [run_type |-> "0", coord_type |-> "0", units_factor |-> Zero,
     terms |-> {}, elec_damp |-> "0", disp_damp |-> "0", pol_damp |-> "0",
     hess_delta |-> Zero, max_steps |-> 0, print_step |-> 0,
     target_temperature |-> Zero, time_step |-> Zero, ensemble_type |-> "0",
     thermostat_tau |-> Zero, opt_tol |-> Zero,
     fraglib_path |-> <<>>, userlib_path |-> <<>>,
     n_frags |-> 0, frags |-> <<>>]

n_convert(coord_type) ==
    CASE coord_type = "EFP_COORD_TYPE_XYZABC" -> 3
      [] coord_type = "EFP_COORD_TYPE_POINTS" -> 9
      [] coord_type = "EFP_COORD_TYPE_ROTMAT" -> 3

\* Mutant: the relaxation time is computed from the time step.
convert_units_tau_from_step(cfg) ==
    [cfg EXCEPT
       !.time_step = Mul(FS_TO_AU, cfg.time_step),
       !.thermostat_tau = Mul(FS_TO_AU, cfg.time_step),
       !.frags = [i \in 1..cfg.n_frags |->
                    [cfg.frags[i] EXCEPT
                       !.coord = [j \in 1..COORD_SIZE |->
                                    IF j <= n_convert(cfg.coord_type)
                                    THEN Mul(cfg.frags[i].coord[j],
                                             cfg.units_factor)
                                    ELSE cfg.frags[i].coord[j]]]]]

convert_units(cfg) ==
    [cfg EXCEPT
       !.time_step = Mul(FS_TO_AU, cfg.time_step),
       !.thermostat_tau = Mul(FS_TO_AU, cfg.thermostat_tau),
       !.frags = [i \in 1..cfg.n_frags |->
                    [cfg.frags[i] EXCEPT
                       !.coord = [j \in 1..COORD_SIZE |->
                                    IF j <= n_convert(cfg.coord_type)
                                    THEN Mul(cfg.frags[i].coord[j],
                                             cfg.units_factor)
                                    ELSE cfg.frags[i].coord[j]]]]]

-----------------------------------------------------------------------------
(* Field dispatcher.                                                       *)

\* Mutant: the validator is consulted only when nothing follows the value.
parse_field_checked_late(e, st, cfg, r) ==
    IF ~r.ok
    THEN [err |-> "INCORRECT VALUE FOR OPTION " \o e.name,
          st |-> st, cfg |-> cfg, checks |-> 0]
    ELSE IF e.check_fn # "NULL" /\ ~check_fn(e.check_fn, cfg[e.member])
            /\ Ch(Line(st), SkipWs(Line(st), st.ptr)) = NUL
    THEN [err |-> "OPTION " \o e.name \o " VALUE IS OUT OF RANGE",
          st |-> st, cfg |-> cfg, checks |-> 1]
    ELSE [err |-> "", st |-> st, cfg |-> cfg,
          checks |-> IF e.check_fn # "NULL" THEN 1 ELSE 0]

\* parse_field for the matched entry e, once its parser has returned r
\* with the stream at st and the slot written.
parse_field_checked(e, st, cfg, r) ==
    IF ~r.ok
    THEN [err |-> "INCORRECT VALUE FOR OPTION " \o e.name,
          st |-> st, cfg |-> cfg, checks |-> 0]
    ELSE IF e.check_fn # "NULL" /\ ~check_fn(e.check_fn, cfg[e.member])
    THEN [err |-> "OPTION " \o e.name \o " VALUE IS OUT OF RANGE",
          st |-> st, cfg |-> cfg, checks |-> 1]
    ELSE [err |-> "", st |-> st, cfg |-> cfg,
          checks |-> IF e.check_fn # "NULL" THEN 1 ELSE 0]

parse_field_parsed(e, st, cfg, r) ==
    parse_field_checked(e, [st EXCEPT !.ptr = r.ptr],
                        [cfg EXCEPT ![e.member] = r.out], r)

\* parse_field for the matched entry e, the stream st being past the name
\* and the space after it.
parse_field_value(e, st, cfg) ==
    Given(parse_fn(e.parse_fn, Line(st), st.ptr, cfg[e.member]),
          LAMBDA r : parse_field_parsed(e, st, cfg, r))

parse_field_entry(e, st, cfg) ==
    Given(skip_space([st EXCEPT !.ptr = st.ptr + strlen(e.name)]),
          LAMBDA s1 : parse_field_value(e, s1, cfg))

\* The for loop of parse_field, from entry i.
RECURSIVE parse_field_from(_, _, _)
parse_field_from(i, st, cfg) ==
    IF i > Len(config_list)
    THEN [err |-> "UNKNOWN OPTION IN INPUT FILE",
          st |-> st, cfg |-> cfg, checks |-> 0]
    ELSE IF strneqAt(config_list[i].name, 0, Line(st), st.ptr,
                     strlen(config_list[i].name))
    THEN parse_field_entry(config_list[i], st, cfg)
    ELSE parse_field_from(i + 1, st, cfg)

parse_field(st, cfg) == parse_field_from(1, st, cfg)

-----------------------------------------------------------------------------
(* Fragment block parser.                                                  *)

n_rows(coord_type) ==
    CASE coord_type = "EFP_COORD_TYPE_XYZABC" -> 1
      [] coord_type = "EFP_COORD_TYPE_POINTS" -> 3
      [] coord_type = "EFP_COORD_TYPE_ROTMAT" -> 4

n_cols(coord_type) ==
    CASE coord_type = "EFP_COORD_TYPE_XYZABC" -> 6
      [] coord_type = "EFP_COORD_TYPE_POINTS" -> 3
      [] coord_type = "EFP_COORD_TYPE_ROTMAT" -> 3

\* n successive parse_double calls on the current line, stored from
\* index idx + 1 of arr; stops at the first one that fails.
RECURSIVE read_values(_, _, _, _)
\* Mutant: a value missing on a row is taken from the following line.
read_values_next_wrapping(st, n, arr, idx, r) ==
    IF ~r.ok
    THEN IF st.ptr # NULL /\ next_line(st).ptr # NULL
            /\ parse_double(Line(next_line(st)), 0, Zero).ok
         THEN Given(next_line(st), LAMBDA s1 : read_values(s1, n, arr, idx))
         ELSE [ok |-> FALSE, st |-> st, arr |-> arr, idx |-> idx]
    ELSE read_values([st EXCEPT !.ptr = r.ptr], n - 1,
                     [arr EXCEPT ![idx + 1] = r.out], idx + 1)

read_values_next(st, n, arr, idx, r) ==
    IF ~r.ok THEN [ok |-> FALSE, st |-> st, arr |-> arr, idx |-> idx]
    ELSE read_values([st EXCEPT !.ptr = r.ptr], n - 1,
                     [arr EXCEPT ![idx + 1] = r.out], idx + 1)

read_values(st, n, arr, idx) ==
    IF n = 0 THEN [ok |-> TRUE, st |-> st, arr |-> arr, idx |-> idx]
    ELSE Given(parse_double(Line(st), st.ptr, arr[idx + 1]),
               LAMBDA r : read_values_next(st, n, arr, idx, r))

\* The row loop of parse_frag, with rows still to read.
RECURSIVE read_rows(_, _, _, _, _)
read_rows_next(rows, cols, r) ==
    IF ~r.ok THEN [ok |-> FALSE, st |-> r.st, arr |-> r.arr]
    ELSE Given(next_line(r.st),
               LAMBDA s1 : read_rows(s1, rows - 1, cols, r.arr, r.idx))

read_rows(st, rows, cols, arr, idx) ==
    IF rows = 0 THEN [ok |-> TRUE, st |-> st, arr |-> arr]
    ELSE Given(read_values(st, cols, arr, idx),
               LAMBDA r : read_rows_next(rows, cols, r))

\* The velocity block of parse_frag, v being the result of the six
\* parse_double calls.
parse_frag_vel_read(frag, v) ==
    IF ~v.ok
    THEN [err |-> "INCORRECT FRAGMENT VELOCITIES FORMAT",
          st |-> v.st, frag |-> [frag EXCEPT !.vel = v.arr]]
    ELSE [err |-> "", st |-> next_line(v.st),
          frag |-> [frag EXCEPT !.vel = v.arr]]

\* Lines 448-452, the stream st being at the line after the keyword.
parse_frag_vel_keyword(st, frag) ==
    Given(read_values(st, VEL_SIZE, frag.vel, 0),
          LAMBDA v : parse_frag_vel_read(frag, v))

\* Mutant: a line that does not open a velocity block is dropped.
parse_frag_vel_at_consuming(st, frag) ==
    IF strneqAt(Line(st), st.ptr, "velocity", 0, strlen("velocity"))
    THEN Given(next_line(st), LAMBDA s1 : parse_frag_vel_keyword(s1, frag))
    ELSE [err |-> "", st |-> next_line(st), frag |-> frag]

\* Lines 443-453, the stream st being past the leading space.
parse_frag_vel_at(st, frag) ==
    IF strneqAt(Line(st), st.ptr, "velocity", 0, strlen("velocity"))
    THEN Given(next_line(st), LAMBDA s1 : parse_frag_vel_keyword(s1, frag))
    ELSE [err |-> "", st |-> st, frag |-> frag]

\* Mutant: the keyword is looked for without the test of the cursor.
parse_frag_velocity_untested(st, frag) ==
    Given(deref(skip_space(st)), LAMBDA s1 : parse_frag_vel_at(s1, frag))

\* Lines 440-453: the optional velocity block.
parse_frag_velocity(st, frag) ==
    IF st.ptr = NULL THEN [err |-> "", st |-> st, frag |-> frag]
    ELSE Given(deref(skip_space(st)), LAMBDA s1 : parse_frag_vel_at(s1, frag))

\* Lines 432-453, c being the result of the row loop.
parse_frag_rows(frag, c) ==
    IF ~c.ok
    THEN [err |-> "INCORRECT FRAGMENT COORDINATES FORMAT",
          st |-> c.st, frag |-> [frag EXCEPT !.coord = c.arr]]
    ELSE parse_frag_velocity(c.st, [frag EXCEPT !.coord = c.arr])

\* Lines 424-453, the stream st being at the line after the name line.
parse_frag_block(st, coord_type, nm) ==
    Given(read_rows(st, n_rows(coord_type), n_cols(coord_type),
                    ZeroFrag.coord, 0),
          LAMBDA c : parse_frag_rows([ZeroFrag EXCEPT !.name = nm.out], c))

\* Lines 419-453, nm being the result of parse_string.
parse_frag_named(st, coord_type, nm) ==
    IF ~nm.ok
    THEN [err |-> "UNABLE TO READ FRAGMENT NAME", st |-> st,
          frag |-> [ZeroFrag EXCEPT !.name = nm.out]]
    ELSE Given(next_line([st EXCEPT !.ptr = nm.ptr]),
               LAMBDA s1 : parse_frag_block(s1, coord_type, nm))

parse_frag(st, coord_type) ==
    Given(parse_string(Line(st), st.ptr, ZeroFrag.name),
          LAMBDA nm : parse_frag_named(st, coord_type, nm))

-----------------------------------------------------------------------------
(* Defaulting.                                                             *)

\* The for loop of set_config_defaults, from entry i; ok is the
\* conjunction of the asserted results.
RECURSIVE set_config_defaults_from(_, _)
\* Mutant: the parsed default is not stored in the record.
set_config_defaults_next_lost(i, cfg, e, r) ==
    IF ~r.ok THEN [ok |-> FALSE, cfg |-> cfg]
    ELSE set_config_defaults_from(i + 1, cfg)

set_config_defaults_next(i, cfg, e, r) ==
    IF ~r.ok THEN [ok |-> FALSE, cfg |-> cfg]
    ELSE set_config_defaults_from(i + 1, [cfg EXCEPT ![e.member] = r.out])

set_config_defaults_from(i, cfg) ==
    IF i > Len(config_list) THEN [ok |-> TRUE, cfg |-> cfg]
    ELSE set_config_defaults_next(i, cfg, config_list[i],
             parse_fn(config_list[i].parse_fn, config_list[i].default_value,
                      0, cfg[config_list[i].member]))

set_config_defaults == set_config_defaults_from(1, ZeroConfig)

-----------------------------------------------------------------------------
(* parse_config, one action per step of its control flow.                  *)

\* Lines 473-474: allocate the record and seed the defaults.
SetDefaults ==
    /\ pc = "Defaulting"
    /\ IF set_config_defaults.ok
       THEN /\ config' = set_config_defaults.cfg
            /\ pc' = "Opening"
            /\ err' = err
       ELSE /\ config' = set_config_defaults.cfg
            /\ pc' = "Aborted"
            /\ err' = "ASSERTION FAILED"
    /\ UNCHANGED <<file, src, stream, in_open, shapes, check_calls>>

\* Lines 476-485, fopen succeeds: the first line is fetched.
OpenInput ==
    /\ pc = "Opening"
    /\ in_open' = TRUE
    /\ stream' = next_line(stream)
    /\ pc' = "Reading"
    /\ UNCHANGED <<file, src, err, config, shapes, check_calls>>

\* Lines 476-483, fopen fails.
OpenFails ==
    /\ pc = "Opening"
    /\ pc' = "Aborted"
    /\ err' = "UNABLE TO OPEN INPUT FILE"
    /\ UNCHANGED <<file, src, config, stream, in_open, shapes, check_calls>>

IsComment(st) == Ch(Line(st), st.ptr) = "#"

IsBlank(st) == Ch(Line(skip_space(st)), skip_space(st).ptr) = NUL

IsFragment(st) ==
    strneqAt(Line(skip_space(st)), skip_space(st).ptr,
             "fragment", 0, strlen("fragment"))

\* Lines 487-489, 516: a comment line.
SkipComment ==
    /\ pc = "Reading"
    /\ stream.buffer # <<>>
    /\ IsComment(stream)
    /\ stream' = next_line(deref(stream))
    /\ UNCHANGED <<file, src, pc, err, config, in_open, shapes, check_calls>>

\* Mutant: a blank line is passed without fetching the next one.
SkipBlank_stuck ==
    /\ pc = "Reading"
    /\ stream.buffer # <<>>
    /\ ~IsComment(stream)
    /\ IsBlank(stream)
    /\ stream' = deref(skip_space(deref(stream)))
    /\ UNCHANGED <<file, src, pc, err, config, in_open, shapes, check_calls>>

\* Lines 487-494, 516: a blank line.
SkipBlank ==
    /\ pc = "Reading"
    /\ stream.buffer # <<>>
    /\ ~IsComment(stream)
    /\ IsBlank(stream)
    /\ stream' = next_line(deref(skip_space(deref(stream))))
    /\ UNCHANGED <<file, src, pc, err, config, in_open, shapes, check_calls>>

\* Mutant: a fragment named like an earlier one takes its place.
ReadFragmentDone_dedup(r) ==
    /\ config' =
          IF \E i \in 1..config.n_frags : config.frags[i].name = r.frag.name
          THEN [config EXCEPT
                  !.frags = [i \in 1..config.n_frags |->
                               IF config.frags[i].name = r.frag.name
                               THEN r.frag ELSE config.frags[i]]]
          ELSE [config EXCEPT !.n_frags = config.n_frags + 1,
                              !.frags = Append(config.frags, r.frag)]
    /\ shapes' = Append(shapes, config.coord_type)
    /\ stream' = r.st
    /\ err' = r.err
    /\ pc' = IF r.err = "" THEN "Reading" ELSE "Aborted"

\* Lines 499-506, r being what parse_frag produced.
ReadFragmentDone(r) ==
    /\ config' = [config EXCEPT !.n_frags = config.n_frags + 1,
                                !.frags = Append(config.frags, r.frag)]
    /\ shapes' = Append(shapes, config.coord_type)
    /\ stream' = r.st
    /\ err' = r.err
    /\ pc' = IF r.err = "" THEN "Reading" ELSE "Aborted"

\* Lines 497-506, the stream st being past the leading space.
ReadFragmentAt(st) ==
    \E r \in {parse_frag([st EXCEPT !.ptr = st.ptr + strlen("fragment")],
                         config.coord_type)} :
       ReadFragmentDone(r)

\* Lines 496-507: a fragment block.
ReadFragment ==
    /\ pc = "Reading"
    /\ stream.buffer # <<>>
    /\ ~IsComment(stream)
    /\ ~IsBlank(stream)
    /\ IsFragment(stream)
    /\ \E st \in {deref(skip_space(deref(stream)))} : ReadFragmentAt(st)
    /\ UNCHANGED <<file, src, in_open, check_calls>>

\* Lines 510-516, the stream s1 being past the space after the value.
ReadFieldRest(s1) ==
    IF Ch(Line(s1), s1.ptr) # NUL
    THEN /\ stream' = s1
         /\ err' = "ONLY ONE OPTION PER LINE IS ALLOWED"
         /\ pc' = "Aborted"
    ELSE /\ stream' = next_line(s1)
         /\ err' = err
         /\ pc' = "Reading"

\* Lines 509-516, r being what parse_field produced.
ReadFieldDone(r) ==
    /\ config' = r.cfg
    /\ check_calls' = check_calls + r.checks
    /\ IF r.err # ""
       THEN /\ stream' = r.st
            /\ err' = r.err
            /\ pc' = "Aborted"
       ELSE \E s1 \in {deref(skip_space(r.st))} : ReadFieldRest(s1)

\* Lines 508-516: an option line.
ReadField ==
    /\ pc = "Reading"
    /\ stream.buffer # <<>>
    /\ ~IsComment(stream)
    /\ ~IsBlank(stream)
    /\ ~IsFragment(stream)
    /\ \E st \in {deref(skip_space(deref(stream)))} :
          \E r \in {parse_field(st, config)} : ReadFieldDone(r)
    /\ UNCHANGED <<file, src, in_open, shapes>>

\* Mutant: the fragment count is not tested after the loop.
EndOfInput_unchecked ==
    /\ pc = "Reading"
    /\ stream.buffer = <<>>
    /\ err' = err
    /\ pc' = "UnitConverting"
    /\ UNCHANGED <<file, src, config, stream, in_open, shapes, check_calls>>

\* Lines 487, 519-520: the loop ends at end of input.
EndOfInput ==
    /\ pc = "Reading"
    /\ stream.buffer = <<>>
    /\ IF config.n_frags < 1
       THEN /\ err' = "AT LEAST ONE FRAGMENT MUST BE SPECIFIED"
            /\ pc' = "Aborted"
       ELSE /\ err' = err
            /\ pc' = "UnitConverting"
    /\ UNCHANGED <<file, src, config, stream, in_open, shapes, check_calls>>

\* Line 522.
ConvertUnits ==
    /\ pc = "UnitConverting"
    /\ config' = convert_units(config)
    /\ pc' = "Closing"
    /\ UNCHANGED <<file, src, err, stream, in_open, shapes, check_calls>>

\* Lines 524-527: fclose, free(stream.buffer), return config.
Return ==
    /\ pc = "Closing"
    /\ in_open' = FALSE
    /\ stream' = [stream EXCEPT
                    !.nfreed = stream.nfreed
                               + (IF stream.buffer = <<>> THEN 0 ELSE 1)]
    /\ pc' = "Done"
    /\ UNCHANGED <<file, src, err, config, shapes, check_calls>>

Next ==
    \/ SetDefaults
    \/ OpenInput
    \/ OpenFails
    \/ SkipComment
    \/ SkipBlank
    \/ ReadFragment
    \/ ReadField
    \/ EndOfInput
    \/ ConvertUnits
    \/ Return

-----------------------------------------------------------------------------
(* Input files.  A file is assembled from at most MaxChunks pieces of the  *)
(* pool below; src remembers the pieces, and with them what each one       *)
(* declares, so that the outcome of a load can be compared with the input. *)

Opt(text, name, val) ==
    [kind |-> "opt", lines |-> <<text>>, name |-> name, val |-> <<val>>]

Bad(text, msg) == [kind |-> "bad", lines |-> <<text>>, msg |-> msg]

Comment(text) == [kind |-> "comment", lines |-> <<text>>]

Blank(text) == [kind |-> "blank", lines |-> <<text>>]

Row(text) == [kind |-> "row", lines |-> <<text>>]

Frag(lines, name, shape, coord, vel) ==
    [kind |-> "frag", lines |-> lines, name |-> name, shape |-> shape,
     coord |-> coord, vel |-> vel]

ShortFrag(lines, shape) == [kind |-> "short", lines |-> lines, shape |-> shape]

NameLine(text) == [kind |-> "nameline", lines |-> <<text>>]

\* A complete xyzabc block followed by an incomplete velocity block.
ShortVel(lines) == [kind |-> "shortvel", lines |-> lines]

\* A complete block one line of which holds text after what is required.
Extra(lines, shape) == [kind |-> "extra", lines |-> lines, shape |-> shape]

\* A complete block whose name line holds an empty quoted name.
Nameless(lines, coord) ==
    [kind |-> "nameless", lines |-> lines, name |-> "", coord |-> coord]

NoVel == [i \in 1..VEL_SIZE |-> Zero]

Pool ==
    << Opt("time_step 2.0", "time_step", Dec(2, 0)),                   \*  1
       Opt("thermostat_tau 5e2", "thermostat_tau", Dec(5, 2)),         \*  2
       Opt("Time_Step  0.5", "time_step", Dec(5, -1)),                 \*  3
       Bad("time_step 0.0", "OPTION time_step VALUE IS OUT OF RANGE"), \*  4
       Bad("max_steps -3", "OPTION max_steps VALUE IS OUT OF RANGE"),  \*  5
       Bad("bogus 1", "UNKNOWN OPTION IN INPUT FILE"),                 \*  6
       Bad("units bohr angs", "ONLY ONE OPTION PER LINE IS ALLOWED"),  \*  7
       Opt("terms elec disp", "terms",
           {"EFP_TERM_ELEC", "EFP_TERM_DISP"}),                        \*  8
       Opt("terms xr", "terms", {"EFP_TERM_XR"}),                      \*  9
       Bad("terms elec foo", "INCORRECT VALUE FOR OPTION terms"),      \* 10
       Bad("terms", "INCORRECT VALUE FOR OPTION terms"),               \* 11
       Bad("terms elecdisp", "INCORRECT VALUE FOR OPTION terms"),      \* 12
       Comment("# a comment"),                                         \* 13
       Blank("  "),                                                    \* 14
       Opt("units bohr", "units", One),                                \* 15
       Opt("coord points", "coord", "EFP_COORD_TYPE_POINTS"),          \* 16
       Opt("coord rotmat", "coord", "EFP_COORD_TYPE_ROTMAT"),          \* 17
       Frag(<<"fragment h2o", "0.0 1.5 -2.0 0.1 0.2 0.3">>,
            "h2o", "EFP_COORD_TYPE_XYZABC",
            <<Zero, Dec(15, -1), Dec(-2, 0),
              Dec(1, -1), Dec(2, -1), Dec(3, -1)>>, NoVel),            \* 18
       Frag(<<"fragment \"NH3\"", " 1 2 3 4 5 6", " velocity",
              "0.1 0.2 0.3 0.4 0.5 0.6">>,
            "NH3", "EFP_COORD_TYPE_XYZABC",
            <<Dec(1, 0), Dec(2, 0), Dec(3, 0),
              Dec(4, 0), Dec(5, 0), Dec(6, 0)>>,
            <<Dec(1, -1), Dec(2, -1), Dec(3, -1),
              Dec(4, -1), Dec(5, -1), Dec(6, -1)>>),                   \* 19
       Frag(<<"fragment h2o", "1 0 0", "0 2 0", "0 0 3">>,
            "h2o", "EFP_COORD_TYPE_POINTS",
            <<Dec(1, 0), Zero, Zero, Zero, Dec(2, 0), Zero,
              Zero, Zero, Dec(3, 0)>>, NoVel),                         \* 20
       Frag(<<"fragment ch4", "7 8 9", "1 0 0", "0 1 0", "0 0 1">>,
            "ch4", "EFP_COORD_TYPE_ROTMAT",
            <<Dec(7, 0), Dec(8, 0), Dec(9, 0), Dec(1, 0), Zero, Zero,
              Zero, Dec(1, 0), Zero, Zero, Zero, Dec(1, 0)>>, NoVel),  \* 21
       ShortFrag(<<"fragment h2o", "0.0 1.5 -2.0 0.1 0.2">>,
                 "EFP_COORD_TYPE_XYZABC"),                             \* 22
       ShortFrag(<<"fragment h2o", "1 0 0", "0 2 0", "0 0">>,
                 "EFP_COORD_TYPE_POINTS"),                             \* 23
       ShortFrag(<<"fragment ch4", "7 8 9", "1 0 0", "0 1 0", "0 0">>,
                 "EFP_COORD_TYPE_ROTMAT"),                             \* 24
       NameLine("fragment \"a\" 0 0 0 0 0 0"),                         \* 25
       Row("9 8 7 6 5 4"),                                             \* 26
       Nameless(<<"fragment \"\"", "1 2 3 4 5 6">>,
                <<Dec(1, 0), Dec(2, 0), Dec(3, 0),
                  Dec(4, 0), Dec(5, 0), Dec(6, 0)>>),                  \* 27
       Bad("fragment", "UNABLE TO READ FRAGMENT NAME"),                \* 28
       Bad("fragment \"abc", "UNABLE TO READ FRAGMENT NAME"),          \* 29
       Bad("max_steps x 5", "INCORRECT VALUE FOR OPTION max_steps"),   \* 30
       Bad("time_step -1 junk",
           "OPTION time_step VALUE IS OUT OF RANGE"),                  \* 31
       Opt("max_steps 7", "max_steps", 7),                             \* 32
       Bad("hess_delta", "INCORRECT VALUE FOR OPTION hess_delta"),     \* 33
       ShortFrag(<<"fragment h2o">>, "EFP_COORD_TYPE_XYZABC"),         \* 34
       ShortFrag(<<"fragment h2o", "1 0 0", "0 2 0">>,
                 "EFP_COORD_TYPE_POINTS"),                             \* 35
       ShortVel(<<"fragment h2o", "1 2 3 4 5 6", "velocity">>),        \* 36
       Blank(""),                                                      \* 37
       ShortVel(<<"fragment h2o", "1 2 3 4 5 6", "velocity",
                  "1 2 3 4 5">>),                                      \* 38
       Bad("  # note", "UNKNOWN OPTION IN INPUT FILE"),                \* 39
       Comment("#time_step 0.0"),                                      \* 40
       Extra(<<"fragment h2o", "0.0 1.5 -2.0 0.1 0.2 0.3 9.9">>,
             "EFP_COORD_TYPE_XYZABC"),                                 \* 41
       Extra(<<"fragment h2o", "1 2 3 4 5 6", "velocity",
               "1 2 3 4 5 6 extra">>, "EFP_COORD_TYPE_XYZABC"),        \* 42
       Extra(<<"fragment h2o", "1 2 3 4 5 6", "velocity 9 9",
               "1 2 3 4 5 6">>, "EFP_COORD_TYPE_XYZABC"),              \* 43
       Extra(<<"fragment h2o", "1 0 0 7", "0 2 0", "0 0 3">>,
             "EFP_COORD_TYPE_POINTS"),                                 \* 44
       Opt("fraglib_path \"/Opt/My Lib\"", "fraglib_path",
           <<"/Opt/My Lib">>),                                         \* 45
       Opt("userlib_path \"my lib/x\"", "userlib_path",
           <<"my lib/x">>),                                            \* 46
       Frag(<<"fragment \"h2o a\"", "1 2 3 4 5 6">>,
            "h2o a", "EFP_COORD_TYPE_XYZABC",
            <<Dec(1, 0), Dec(2, 0), Dec(3, 0),
              Dec(4, 0), Dec(5, 0), Dec(6, 0)>>, NoVel),               \* 47
       Opt("ensemble nvt", "ensemble", "ENSEMBLE_TYPE_NVT"),           \* 48
       Opt("run_type md", "run_type", "RUN_TYPE_MD"),                  \* 49
       Opt("disp_damp overlap", "disp_damp",
           "EFP_DISP_DAMP_OVERLAP"),                                   \* 50
       Opt("pol_damp off", "pol_damp", "EFP_POL_DAMP_OFF"),            \* 51
       Opt("elec_damp off", "elec_damp", "EFP_ELEC_DAMP_OFF") >>       \* 52

\* Pieces for the claims about options and defaults.
OptionPool == {1, 2, 3, 4, 5, 6, 7, 13, 14, 18}

\* Pieces for the claims about the terms option.
TermsPool == {8, 9, 10, 11, 12, 13, 14, 18}

\* Pieces for the claims about the shape of a fragment block.
ShapePool == {13, 14, 16, 17, 18, 20, 21, 22, 23, 24, 26}

\* Pieces for the claims about the fragment name line.
NamePool == {13, 14, 16, 18, 25, 26}

\* Pieces for the claims about the fragment sequence and its units.
MixPool == {13, 14, 15, 16, 18, 19, 20}

\* Pieces for the claims about the name of a fragment.
EmptyNamePool == {1, 13, 14, 18, 27, 28, 29}

\* Pieces for the claims about the order of the tests of an option line.
DispatchPool == {1, 3, 6, 7, 13, 14, 18, 30, 31, 32, 33}

\* Pieces for the claims about the line buffer and the cursor.
CursorPool == {1, 13, 14, 16, 18, 19, 34, 35, 36, 37}

\* Pieces for the claims about the velocity block.
VelocityPool == {1, 6, 13, 14, 18, 19, 36, 38}

\* Pieces for the claims about comment lines and blank lines.
CommentPool == {1, 13, 14, 18, 19, 37, 39, 40}

\* Pieces for the claims about text after the values of a row.
ExtraPool == {13, 14, 16, 18, 41, 42, 43, 44}

\* Pieces for the claims about quoted strings.
QuotedPool == {13, 14, 18, 19, 45, 46, 47}

\* Pieces for the claims about the lookup tables.
EnumPool == {8, 13, 14, 16, 18, 48, 49, 50, 51, 52}

\* Pieces for the claims about the end of a load.
LivePool == {1, 6, 13, 14, 18, 19, 36, 37}

\* All sequences of at most n elements of S.
SeqsUpTo(S, n) == UNION {[1..k -> S] : k \in 0..n}

\* The lines of the pieces of a file, in order.
RECURSIVE LinesOf(_)
LinesOf(chunks) ==
    IF chunks = <<>> THEN <<>>
    ELSE Pool[Head(chunks)].lines \o LinesOf(Tail(chunks))

\* The text of a file made of the given lines, each ended by a newline
\* except, when nl is false, the last one.
RECURSIVE JoinLines(_, _)
JoinLines(lines, nl) ==
    IF lines = <<>> THEN ""
    ELSE IF Len(lines) = 1 THEN Head(lines) \o (IF nl THEN "\n" ELSE "")
    ELSE Head(lines) \o "\n" \o JoinLines(Tail(lines), nl)

InitWith(P) ==
    /\ src \in SeqsUpTo(P, MaxChunks)
    /\ file \in {JoinLines(LinesOf(src), nl) : nl \in BOOLEAN}
    /\ pc = "Defaulting"
    /\ err = ""
    /\ config = ZeroConfig
    /\ stream = [buffer |-> <<>>, ptr |-> NULL, in |-> 0,
                 nalloc |-> 0, nfreed |-> 0, faults |-> 0]
    /\ in_open = FALSE
    /\ shapes = <<>>
    /\ check_calls = 0

Init == InitWith(OptionPool)

Spec == Init /\ [][Next]_vars

InitTerms == InitWith(TermsPool)

SpecTerms == InitTerms /\ [][Next]_vars

InitShape == InitWith(ShapePool)

SpecShape == InitShape /\ [][Next]_vars

InitName == InitWith(NamePool)

SpecName == InitName /\ [][Next]_vars

InitMix == InitWith(MixPool)

SpecMix == InitMix /\ [][Next]_vars

InitEmptyName == InitWith(EmptyNamePool)

SpecEmptyName == InitEmptyName /\ [][Next]_vars

InitDispatch == InitWith(DispatchPool)

SpecDispatch == InitDispatch /\ [][Next]_vars

InitCursor == InitWith(CursorPool)

SpecCursor == InitCursor /\ [][Next]_vars

InitVelocity == InitWith(VelocityPool)

SpecVelocity == InitVelocity /\ [][Next]_vars

InitComment == InitWith(CommentPool)

SpecComment == InitComment /\ [][Next]_vars

InitExtra == InitWith(ExtraPool)

SpecExtra == InitExtra /\ [][Next]_vars

InitQuoted == InitWith(QuotedPool)

SpecQuoted == InitQuoted /\ [][Next]_vars

InitEnum == InitWith(EnumPool)

SpecEnum == InitEnum /\ [][Next]_vars

InitLive == InitWith(LivePool)

\* parse_config runs alone and to its end: while a step is possible, a step
\* is taken.
SpecLive == InitLive /\ [][Next]_vars /\ WF_vars(Next)

Returned == pc = "Done"

Aborted == pc = "Aborted"

TypeOK ==
    /\ pc \in {"Defaulting", "Opening", "Reading", "UnitConverting",
               "Closing", "Done", "Aborted"}
    /\ Aborted <=> err # ""

-----------------------------------------------------------------------------
(* What the input declares.                                                *)

Kind(k) == Pool[src[k]].kind

\* The positions of the option lines that set the option called name.
GivenAt(name) ==
    {k \in 1..Len(src) : Kind(k) = "opt" /\ Pool[src[k]].name = name}

Last(S) == CHOOSE k \in S : \A j \in S : j <= k

\* The value of the last line that sets the option, or d when none does.
LastGiven(name, d) ==
    IF GivenAt(name) = {} THEN d ELSE Pool[src[Last(GivenAt(name))]].val[1]

AllTerms == {"EFP_TERM_ELEC", "EFP_TERM_POL", "EFP_TERM_DISP", "EFP_TERM_XR"}

OPEN_ERROR == "UNABLE TO OPEN INPUT FILE"

NO_FRAGMENT_ERROR == "AT LEAST ONE FRAGMENT MUST BE SPECIFIED"

\* The load is past the reading loop without having aborted.
PastReading == pc \in {"UnitConverting", "Closing", "Done"}

-----------------------------------------------------------------------------
(* C1 *)

\* The input holds only valid option lines, comment lines and blank lines.
NoFragmentInput ==
    \A k \in 1..Len(src) : Kind(k) \in {"opt", "comment", "blank"}

\* C1: a load of an input without a fragment block, whatever valid option
\* lines, comment lines and blank lines it holds, never gets past the
\* reading loop, and once opened it can only abort with the "at least one
\* fragment" error; no returned record has n_frags < 1.
C1_NoFragmentAborts ==
    /\ Returned => config.n_frags >= 1
    /\ NoFragmentInput =>
          /\ ~PastReading
          /\ Aborted => err \in {NO_FRAGMENT_ERROR, OPEN_ERROR}

C1_Witness ==
    /\ Aborted
    /\ err = NO_FRAGMENT_ERROR
    /\ \E k \in 1..Len(src) : Kind(k) = "opt"
    /\ \E k \in 1..Len(src) : Kind(k) = "comment"
    /\ \E k \in 1..Len(src) : Kind(k) = "blank"

-----------------------------------------------------------------------------
(* C2 *)

\* The first n_convert values of every fragment carry the units factor.
LengthsConverted ==
    \A i \in 1..config.n_frags :
       \A j \in 1..n_convert(config.coord_type) :
          \/ config.frags[i].coord[j].m = 0
          \/ config.frags[i].coord[j].br = config.units_factor.br

C2_ValidRecord ==
    /\ err = ""
    /\ config.n_frags >= 1
    /\ config.terms # {}
    /\ config.hess_delta.m > 0
    /\ config.max_steps > 0
    /\ config.print_step > 0
    /\ config.target_temperature.m > 0
    /\ config.time_step.m > 0
    /\ config.thermostat_tau.m > 0
    /\ config.opt_tol.m > 0
    /\ config.time_step.fs = 1
    /\ config.thermostat_tau.fs = 1
    /\ LengthsConverted

\* C2: a record is returned only if no error was raised, every returned
\* record is valid (at least one fragment, non-empty terms, positive
\* numeric options, units converted), and once an error is raised the load
\* stays aborted, so that no record is returned after it.
C2_AllOrNothing ==
    /\ [](Returned => C2_ValidRecord)
    /\ [][err # "" => (err' = err /\ pc' = "Aborted")]_vars

C2_Witness ==
    /\ Returned
    /\ GivenAt("time_step") # {}
    /\ GivenAt("thermostat_tau") # {}

-----------------------------------------------------------------------------
(* C7 *)

\* C7: in a returned record the time step is the last value given (1.0 by
\* default) times FS_TO_AU, once, and the relaxation time is the last value
\* given (1000.0 by default) times FS_TO_AU, once.
C7_TimeUnits ==
    Returned =>
       /\ config.time_step = Mul(LastGiven("time_step", Dec(1, 0)), FS_TO_AU)
       /\ config.thermostat_tau =
             Mul(LastGiven("thermostat_tau", Dec(1, 3)), FS_TO_AU)

\* `time_step 2.0` followed by one xyzabc fragment.
C7_Witness ==
    /\ Returned
    /\ src = <<1, 18>>
    /\ config.time_step = [m |-> 2, e |-> 0, fs |-> 1, br |-> 0]

-----------------------------------------------------------------------------
(* C10 *)

\* The documented defaults.
DocumentedDefaults ==
    [run_type |-> "RUN_TYPE_SP", coord_type |-> "EFP_COORD_TYPE_XYZABC",
     units_factor |-> INV_BOHR_RADIUS, terms |-> AllTerms,
     elec_damp |-> "EFP_ELEC_DAMP_SCREEN", disp_damp |-> "EFP_DISP_DAMP_TT",
     pol_damp |-> "EFP_POL_DAMP_TT", hess_delta |-> Dec(1, -3),
     max_steps |-> 100, print_step |-> 1, target_temperature |-> Dec(300, 0),
     time_step |-> Dec(1, 0), ensemble_type |-> "ENSEMBLE_TYPE_NVE",
     thermostat_tau |-> Dec(1000, 0), opt_tol |-> Dec(1, -4),
     fraglib_path |-> <<EFP_DATA_DIR>>, userlib_path |-> <<".">>,
     n_frags |-> 0, frags |-> <<>>]

\* The members that neither reading fragments nor converting units touches.
PlainMembers ==
    {"run_type", "coord_type", "units_factor", "terms", "elec_damp",
     "disp_damp", "pol_damp", "hess_delta", "max_steps", "print_step",
     "target_temperature", "ensemble_type", "opt_tol", "fraglib_path",
     "userlib_path"}

NoOptionInput ==
    \A k \in 1..Len(src) : Kind(k) \in {"comment", "blank", "frag"}

\* C10: defaulting never fails its assertion; it leaves the documented
\* defaults in the record, each of which satisfies the validator of its
\* entry, without having invoked a validator; and a record loaded from a
\* file without option lines holds the defaults (the two times converted).
C10_Defaults ==
    /\ err # "ASSERTION FAILED"
    /\ pc = "Opening" =>
          /\ config = DocumentedDefaults
          /\ check_calls = 0
          /\ \A i \in 1..Len(config_list) :
                config_list[i].check_fn # "NULL" =>
                   check_fn(config_list[i].check_fn,
                            config[config_list[i].member])
    /\ (Returned /\ NoOptionInput) =>
          /\ \A f \in PlainMembers : config[f] = DocumentedDefaults[f]
          /\ config.time_step = Mul(Dec(1, 0), FS_TO_AU)
          /\ config.thermostat_tau = Mul(Dec(1000, 0), FS_TO_AU)
          /\ check_calls = 0

C10_Witness ==
    /\ Returned
    /\ NoOptionInput
    /\ config.n_frags = 2

-----------------------------------------------------------------------------
(* Fragment blocks the input declares.                                     *)

\* The coordinate representation in force at position k of the input: the
\* one of the last coord line before k, xyzabc when there is none.
EffShape(k) ==
    IF {j \in GivenAt("coord") : j < k} = {} THEN "EFP_COORD_TYPE_XYZABC"
    ELSE Pool[src[Last({j \in GivenAt("coord") : j < k})]].val[1]

\* Every line is a valid option, a comment or blank, or belongs to a
\* fragment block complete for the representation in force where it stands.
WellFormedInput ==
    \A k \in 1..Len(src) :
       /\ Kind(k) \in {"opt", "comment", "blank", "frag"}
       /\ Kind(k) = "frag" => Pool[src[k]].shape = EffShape(k)

FragsBefore(k) == Cardinality({j \in 1..k : Kind(j) = "frag"})

NumFrags == FragsBefore(Len(src))

\* The i-th fragment block declared by the input.
Declared(i) ==
    Pool[src[CHOOSE k \in 1..Len(src) :
                Kind(k) = "frag" /\ FragsBefore(k) = i]]

PadCoord(c) == [j \in 1..COORD_SIZE |-> IF j <= Len(c) THEN c[j] ELSE Zero]

\* The number of length-bearing values of a representation.
NumLengths(shape) == IF shape = "EFP_COORD_TYPE_POINTS" THEN 9 ELSE 3

\* Position k holds the first block of the input, of the given kind, and
\* only valid option, comment and blank lines stand before it.
LeadingBlock(k, kind) ==
    /\ k \in 1..Len(src)
    /\ Kind(k) = kind
    /\ \A j \in 1..(k - 1) : Kind(j) \in {"opt", "comment", "blank"}

COORD_ERROR == "INCORRECT FRAGMENT COORDINATES FORMAT"

FragmentErrors ==
    {"UNABLE TO READ FRAGMENT NAME", COORD_ERROR,
     "INCORRECT FRAGMENT VELOCITIES FORMAT"}

-----------------------------------------------------------------------------
(* C3 *)

\* C3: in a loaded configuration the coord_type every fragment block was
\* parsed with is the coord_type convert_units uses, for every order of the
\* lines.
C3_OneRepresentation ==
    PastReading => \A i \in 1..Len(shapes) : shapes[i] = config.coord_type

-----------------------------------------------------------------------------
(* C4 *)

\* C4: a block with exactly the required rows and values, in the
\* representation in force, is parsed without a fragment error and its
\* values are stored in row-major order; the same block less the last value
\* of its last row aborts the load with the coordinates-format error,
\* whatever line follows it.
C4_BlockShape ==
    \A k \in 1..Len(src) :
       /\ (LeadingBlock(k, "frag") /\ Pool[src[k]].shape = EffShape(k)
             /\ config.n_frags >= 1) =>
             /\ config.n_frags = 1 => err \notin FragmentErrors
             /\ pc \notin {"Closing", "Done"} =>
                   config.frags[1].coord = PadCoord(Pool[src[k]].coord)
       /\ (LeadingBlock(k, "short") /\ Pool[src[k]].shape = EffShape(k)
             /\ config.n_frags >= 1) =>
             /\ config.n_frags = 1
             /\ Aborted
             /\ err = COORD_ERROR

\* A rotmat block short of one value, followed by a row of values.
C4_Witness ==
    /\ src = <<17, 24, 26>>
    /\ Aborted
    /\ err = COORD_ERROR

-----------------------------------------------------------------------------
(* C5 *)

\* C5: under coord xyzabc, a fragment line that carries the six values
\* after the name makes the load fail, whether or not lines follow it.
C5_NameLineRejected ==
    \A k \in 1..Len(src) :
       (LeadingBlock(k, "nameline") /\ EffShape(k) = "EFP_COORD_TYPE_XYZABC")
          => /\ ~PastReading
             /\ config.n_frags >= 1 => Aborted

-----------------------------------------------------------------------------
(* C6 *)

\* C6: no coordinate is scaled before the reading loop has ended; after
\* convert_units the length-bearing values of every fragment (9 for a
\* points block, 3 for an xyzabc or rotmat block) are the declared ones
\* times the units factor, once, and its other values and its velocities
\* are as declared.
C6_ConvertedOnce ==
    WellFormedInput =>
       /\ pc \in {"Reading", "UnitConverting"} =>
             \A i \in 1..config.n_frags :
                config.frags[i].coord = PadCoord(Declared(i).coord)
       /\ pc \in {"Closing", "Done"} =>
             \A i \in 1..config.n_frags :
                /\ config.frags[i].vel = Declared(i).vel
                /\ \A j \in 1..COORD_SIZE :
                      config.frags[i].coord[j] =
                         IF j <= NumLengths(Declared(i).shape)
                         THEN Mul(PadCoord(Declared(i).coord)[j],
                                  LastGiven("units", INV_BOHR_RADIUS))
                         ELSE PadCoord(Declared(i).coord)[j]

-----------------------------------------------------------------------------
(* C8 *)

\* C8: a returned record holds exactly the terms of the last terms line
\* (all four when there is none); a load whose first invalid line is a
\* terms line with a token outside elec, pol, disp, xr, or with no token,
\* aborts with the incorrect-value error.
C8_Terms ==
    /\ Returned => config.terms = LastGiven("terms", AllTerms)
    /\ \A k \in 1..Len(src) :
          (/\ Kind(k) = "bad"
           /\ \A j \in 1..(k - 1) : Kind(j) \in {"opt", "comment", "blank", "frag"})
          => /\ ~PastReading
             /\ Aborted => err \in {Pool[src[k]].msg, OPEN_ERROR}

-----------------------------------------------------------------------------
(* C9 *)

\* The entry the i-th declared block produces; the name is the declared
\* one as the line reader folds it to lower case.
DeclaredEntry(i) ==
    [name  |-> <<LowerAll(Declared(i).name)>>,
     coord |-> PadCoord(Declared(i).coord),
     vel   |-> Declared(i).vel]

\* C9: while the input is read the fragment sequence is the sequence of
\* the blocks declared so far, in order, equal names included, so that
\* reading a block alters no earlier entry; a loaded record has one entry
\* per declared block, with its name and velocities and with its
\* coordinates, each as declared or scaled by the units factor.
C9_FragmentSequence ==
    WellFormedInput =>
       /\ config.n_frags = Len(config.frags)
       /\ config.n_frags <= NumFrags
       /\ pc \in {"Reading", "UnitConverting"} =>
             \A i \in 1..config.n_frags : config.frags[i] = DeclaredEntry(i)
       /\ PastReading => config.n_frags = NumFrags
       /\ Returned =>
             \A i \in 1..config.n_frags :
                /\ config.frags[i].name = DeclaredEntry(i).name
                /\ config.frags[i].vel = DeclaredEntry(i).vel
                /\ \A j \in 1..COORD_SIZE :
                      config.frags[i].coord[j] \in
                         {DeclaredEntry(i).coord[j],
                          Mul(DeclaredEntry(i).coord[j], config.units_factor)}

\* Three blocks, the first and the last with the same name.
C9_Witness ==
    /\ Returned
    /\ config.n_frags = 3
    /\ config.frags[1].name = config.frags[3].name
    /\ config.frags[1].name # config.frags[2].name

-----------------------------------------------------------------------------
(* C11 *)

\* C11: every fragment entry of a load that has not aborted, and so every
\* fragment of a returned record, has a name of at least one character,
\* whatever name lines the input holds (without a name, with an
\* unterminated quoted name, with an empty quoted name).
C11_NonEmptyName ==
    pc \in {"Reading", "UnitConverting", "Closing", "Done"} =>
       \A i \in 1..Len(config.frags) :
          /\ config.frags[i].name # <<>>
          /\ strlen(config.frags[i].name[1]) > 0

-----------------------------------------------------------------------------
(* The line of the input the main loop is at.                              *)

\* The number of lines of the pieces before position k.
RECURSIVE LinesBefore(_)
LinesBefore(k) ==
    IF k <= 1 THEN 0
    ELSE LinesBefore(k - 1) + Len(Pool[src[k - 1]].lines)

\* The main loop is about to dispatch the first line of piece k: every
\* line read so far was allocated by read_line, so that nalloc numbers the
\* current line.
AtPiece(k) ==
    /\ pc = "Reading"
    /\ stream.buffer # <<>>
    /\ stream.nalloc = LinesBefore(k) + 1

\* The member of the record bound to the option called name.
MemberOf(name) ==
    config_list[CHOOSE i \in 1..Len(config_list) :
                   config_list[i].name = name].member

-----------------------------------------------------------------------------
(* C12 *)

\* The outcome of dispatching the line the main loop is at.
C12_Step ==
    \A k \in 1..Len(src) :
       AtPiece(k) =>
          /\ Kind(k) = "bad" =>
                /\ pc' = "Aborted"
                /\ err' = Pool[src[k]].msg
          /\ Kind(k) = "opt" =>
                /\ pc' = "Reading"
                /\ err' = ""
                /\ config' = [config EXCEPT ![MemberOf(Pool[src[k]].name)] =
                                               Pool[src[k]].val[1]]

\* C12: an option line aborts with the error of the first test it fails,
\* in the order unknown name, no value, value out of range, text after the
\* value (a line failing two tests aborts with the earlier one); a line
\* that passes them all changes the slot of its option and nothing else of
\* the record; and at the end of the loop every slot holds the value of the
\* last line that set it, or its default.
C12_Dispatch ==
    /\ [][C12_Step]_vars
    /\ [](pc = "UnitConverting" =>
             \A i \in 1..Len(config_list) :
                config[config_list[i].member] =
                   LastGiven(config_list[i].name,
                             DocumentedDefaults[config_list[i].member]))

\* `time_step 2.0`, then `time_step -1 junk`: out of range, not "only one
\* option per line".
C12_Witness ==
    /\ Aborted
    /\ src = <<1, 31>>
    /\ err = "OPTION time_step VALUE IS OUT OF RANGE"

-----------------------------------------------------------------------------
(* C13 *)

\* Nothing of the stream is held any more: the file is closed and every
\* line buffer read_line allocated has been freed.
StreamReleased ==
    /\ ~in_open
    /\ stream.nfreed = stream.nalloc

\* C13: once the file has been opened, the file handle and the line buffer
\* are released when parse_config returns the record and also when it
\* calls error().
C13_Released ==
    /\ Returned => StreamReleased
    /\ (Aborted /\ err # OPEN_ERROR) => StreamReleased

-----------------------------------------------------------------------------
(* C14 *)

\* The number of lines read_line finds in data from pos on.
RECURSIVE CountLines(_, _)
CountLines(data, pos) ==
    IF pos >= Len(data) THEN 0
    ELSE 1 + CountLines(data, IF ScanLine(data, pos) < Len(data)
                              THEN ScanLine(data, pos) + 1
                              ELSE ScanLine(data, pos))

\* The file was opened and next_line has been called.
Opened ==
    \/ pc \in {"Reading", "UnitConverting", "Closing", "Done"}
    \/ Aborted /\ err # OPEN_ERROR

\* C14: at most one line buffer is allocated and not freed, and it is the
\* current one; the cursor is null exactly when there is no current buffer,
\* which after opening is exactly when every line of the file has been
\* read and end of input was met; a cursor that is not null lies between
\* the start of the current line and its terminator; and no read of the
\* cursor was made while it was invalid, also for inputs that end inside
\* a fragment block.
C14_CursorSafe ==
    /\ stream.faults = 0
    /\ stream.nalloc - stream.nfreed = IF stream.buffer = <<>> THEN 0 ELSE 1
    /\ stream.ptr = NULL <=> stream.buffer = <<>>
    /\ stream.buffer # <<>> => ValidCursor(stream)
    /\ Opened =>
          /\ stream.nalloc <= CountLines(file, 0)
          /\ stream.buffer = <<>> <=>
                /\ stream.in = Len(file)
                /\ stream.nfreed = CountLines(file, 0)

\* `coord points`, then a block that ends after its second row: the
\* third row is asked for at end of input.
C14_Witness ==
    /\ src = <<16, 35>>
    /\ Aborted
    /\ err = COORD_ERROR
    /\ stream.ptr = NULL
    /\ stream.nfreed = 4

-----------------------------------------------------------------------------
(* C15 *)

VELOCITY_ERROR == "INCORRECT FRAGMENT VELOCITIES FORMAT"

\* The stream st is at line n of the input, or at end of input when the
\* file has fewer lines.
AtLine(st, n) ==
    IF n > CountLines(file, 0) THEN st.buffer = <<>>
    ELSE /\ st.nalloc = n
         /\ st.buffer = <<LowerAll(LinesOf(src)[n])>>

\* The entry the block at position k declares.
PieceEntry(k) ==
    [name  |-> <<LowerAll(Pool[src[k]].name)>>,
     coord |-> PadCoord(Pool[src[k]].coord),
     vel   |-> Pool[src[k]].vel]

\* The outcome of one iteration of the main loop, by the kind of the piece
\* whose first line it is at, whatever stands before that line.
C15_Step ==
    \A k \in 1..Len(src) :
       AtPiece(k) =>
          /\ (Kind(k) = "frag" /\ Pool[src[k]].shape = config.coord_type) =>
                /\ pc' = "Reading"
                /\ err' = ""
                /\ config' = [config EXCEPT
                                !.n_frags = config.n_frags + 1,
                                !.frags = Append(config.frags, PieceEntry(k))]
                /\ AtLine(stream', LinesBefore(k + 1) + 1)
          /\ Kind(k) = "shortvel" =>
                /\ pc' = "Aborted"
                /\ err' = VELOCITY_ERROR
          /\ Kind(k) \in {"comment", "blank"} =>
                /\ pc' = "Reading"
                /\ config' = config
                /\ AtLine(stream', LinesBefore(k + 1) + 1)
          /\ Kind(k) = "opt" =>
                /\ pc' = "Reading"
                /\ config' = [config EXCEPT ![MemberOf(Pool[src[k]].name)] =
                                               Pool[src[k]].val[1]]
                /\ AtLine(stream', LinesBefore(k + 1) + 1)
          /\ Kind(k) = "bad" =>
                /\ pc' = "Aborted"
                /\ err' = Pool[src[k]].msg

\* C15: a block whose coordinate rows are followed by the velocity keyword
\* takes its six velocities from the line after the keyword, and aborts
\* with the velocities-format error when that line is missing or holds
\* fewer than six values; a block followed by anything else, or by
\* nothing, has six zero velocities and leaves the main loop at the very
\* next line, which is then handled as a line of its kind is handled
\* anywhere (an option is set, a comment or a blank line is passed, a
\* fragment is read, an unknown option aborts).
C15_Velocities == [][C15_Step]_vars

\* A block without velocities, an option line that takes effect, a block
\* with velocities.
C15_Witness ==
    /\ Returned
    /\ src = <<18, 1, 19>>
    /\ config.frags[1].vel = NoVel
    /\ config.frags[2].vel = Pool[19].vel
    /\ config.time_step = Mul(Dec(2, 0), FS_TO_AU)

-----------------------------------------------------------------------------
(* C16 *)

\* The main loop passes the first line of piece k and changes nothing.
Skipped(k) ==
    /\ pc' = "Reading"
    /\ err' = ""
    /\ config' = config
    /\ AtLine(stream', LinesBefore(k + 1) + 1)

\* The handling of the line the main loop is at, told from its text alone.
C16_Step ==
    \A k \in 1..Len(src) :
       (AtPiece(k) /\ Len(Pool[src[k]].lines) = 1) =>
          /\ Ch(Pool[src[k]].lines[1], 0) = "#" => Skipped(k)
          /\ Ch(Pool[src[k]].lines[1], SkipWs(Pool[src[k]].lines[1], 0)) = NUL
                => Skipped(k)
          /\ (/\ Ch(Pool[src[k]].lines[1], 0) # "#"
              /\ Ch(Pool[src[k]].lines[1],
                    SkipWs(Pool[src[k]].lines[1], 0)) = "#") =>
                /\ pc' = "Aborted"
                /\ err' = "UNKNOWN OPTION IN INPUT FILE"

\* C16: a line whose first character is '#' is passed over, and so is a
\* line of white space only or of no character; a line where white space
\* stands before the '#' is not a comment and is rejected as an unknown
\* option; each of these holds wherever the line stands, at the start of
\* the file, after an option line, or right after a fragment block.
C16_Comments == [][C16_Step]_vars

-----------------------------------------------------------------------------
(* C17 *)

\* The main loop is at a block, complete for the representation in force,
\* one line of which holds text after the required values or after the
\* velocity keyword.
AtExtraBlock ==
    \E k \in 1..Len(src) :
       /\ AtPiece(k)
       /\ Kind(k) = "extra"
       /\ Pool[src[k]].shape = config.coord_type

\* C17: a block with a value or a word after the required values of a
\* coordinate row or of the velocity row, or with text after the velocity
\* keyword, aborts the load.
C17_ExactRows == [][AtExtraBlock => pc' = "Aborted"]_vars

-----------------------------------------------------------------------------
(* C18 *)

\* C18: in a returned record each of the two paths is the text between
\* the quotes of the last line that sets it (its default without such a
\* line), and the name of each fragment is the text between the quotes of
\* its name line, character for character, upper-case letters and
\* interior spaces included.
C18_Verbatim ==
    Returned =>
       /\ config.fraglib_path = LastGiven("fraglib_path", <<EFP_DATA_DIR>>)
       /\ config.userlib_path = LastGiven("userlib_path", <<".">>)
       /\ \A i \in 1..config.n_frags :
             config.frags[i].name = <<Declared(i).name>>

-----------------------------------------------------------------------------
(* C19 *)

\* The names of a table of parse_enum, from offset q of the string on.
RECURSIVE SplitNames(_, _)
SplitNames(names, q) ==
    IF strchr_nl(names, q) = NULL
    THEN <<SubSeq(names, q + 1, Len(names))>>
    ELSE <<SubSeq(names, q + 1, ScanLine(names, q))>>
         \o SplitNames(names, strchr_nl(names, q) + 1)

Reverse(seq) == [i \in 1..Len(seq) |-> seq[Len(seq) + 1 - i]]

IsPrefix(a, b) == Len(a) <= Len(b) /\ SubSeq(b, 1, Len(a)) = a

\* No name of the table T is a prefix of another name of T.
PrefixDisjoint(T) ==
    \A i, j \in 1..Len(T) : i # j => ~IsPrefix(T[i], T[j])

EnumTables ==
    << [names |-> run_type_names,  values |-> run_type_values],
       [names |-> coord_names,     values |-> coord_values],
       [names |-> units_names,     values |-> units_values],
       [names |-> elec_damp_names, values |-> elec_damp_values],
       [names |-> disp_damp_names, values |-> disp_damp_values],
       [names |-> pol_damp_names,  values |-> pol_damp_values],
       [names |-> ensemble_names,  values |-> ensemble_values] >>

\* The names of each table, as a sequence.
EnumNames ==
    [t \in 1..Len(EnumTables) |-> SplitNames(EnumTables[t].names, 0)]

\* Each table with its entries in the opposite order.
ReversedTables ==
    [t \in 1..Len(EnumTables) |->
       [names  |-> JoinLines(Reverse(EnumNames[t]), FALSE),
        values |-> Reverse(EnumTables[t].values)]]

TermNames == [i \in 1..Len(terms_list) |-> terms_list[i].name]

OptionNames == [i \in 1..Len(config_list) |-> config_list[i].name]

TablesDisjoint ==
    /\ \A t \in 1..Len(EnumTables) : PrefixDisjoint(EnumNames[t])
    /\ PrefixDisjoint(TermNames)
    /\ PrefixDisjoint(OptionNames)
    /\ \A i \in 1..Len(OptionNames) : ~IsPrefix("fragment", OptionNames[i])

\* The entries of T whose name stands at offset q of s.
Matching(T, s, q) ==
    {i \in 1..Len(T) : strneqAt(s, q, T[i], 0, Len(T[i]))}

\* The entry of M with the longest name.
Longest(T, M) == CHOOSE i \in M : \A j \in M : Len(T[j]) <= Len(T[i])

\* What a longest-prefix match over the names T with the values V gives.
LongestEnum(s, q, T, V, M) ==
    IF M = {} THEN Fail(q, "none")
    ELSE [ok |-> TRUE, ptr |-> q + Len(T[Longest(T, M)]),
          out |-> V[Longest(T, M)]]

EnumAgrees(t, s, q) ==
    /\ parse_enum(s, q, "none", EnumTables[t].names, EnumTables[t].values) =
          LongestEnum(s, q, EnumNames[t], EnumTables[t].values,
                      Matching(EnumNames[t], s, q))
    /\ parse_enum(s, q, "none", ReversedTables[t].names,
                  ReversedTables[t].values) =
          LongestEnum(s, q, EnumNames[t], EnumTables[t].values,
                      Matching(EnumNames[t], s, q))

TermsAgree(s, q, M) ==
    terms_match(s, q) = IF M = {} THEN 0 ELSE Longest(TermNames, M)

OptionAgrees(st, cfg, M) ==
    parse_field(st, cfg) =
       IF M = {}
       THEN [err |-> "UNKNOWN OPTION IN INPUT FILE",
             st |-> st, cfg |-> cfg, checks |-> 0]
       ELSE parse_field_entry(config_list[Longest(OptionNames, M)], st, cfg)

\* The lines next_line can produce from the pieces of the pool.
LookupTexts ==
    UNION {{LowerAll(Pool[n].lines[i]) : i \in 1..Len(Pool[n].lines)} :
              n \in EnumPool}

\* At every offset of every such line the scans of parse_enum and of
\* parse_terms select what a longest-prefix match selects.
LookupsAgree ==
    \A s \in LookupTexts :
       \A q \in 0..Len(s) :
          /\ \A t \in 1..Len(EnumTables) : EnumAgrees(t, s, q)
          /\ TermsAgree(s, q, Matching(TermNames, s, q))

\* C19: in no table of parse_enum, nor in the list of terms, nor in the
\* option table, is a name a prefix of another name, and no option name
\* starts with the fragment keyword; and at every offset of every line
\* read, the first-match scans of parse_enum (over each table, and over
\* the table in reverse order), of parse_terms and of parse_field select
\* the entry a longest-prefix match selects.
C19_FirstIsLongest ==
    /\ TablesDisjoint
    /\ LookupsAgree
    /\ (pc = "Reading" /\ stream.buffer # <<>>) =>
          /\ Line(stream) \in LookupTexts
          /\ \A q \in 0..Len(Line(stream)) :
                OptionAgrees([stream EXCEPT !.ptr = q], config,
                             Matching(OptionNames, Line(stream), q))

\* `ensemble nvt` was read: the second name of its table was selected.
C19_Witness ==
    /\ Returned
    /\ src = <<48, 18>>
    /\ config.ensemble_type = "ENSEMBLE_TYPE_NVT"

-----------------------------------------------------------------------------
(* C20 *)

\* The steps parse_config can take from one position to the next.
Order ==
    {<<"Defaulting", "Opening">>, <<"Defaulting", "Aborted">>,
     <<"Opening", "Reading">>, <<"Opening", "Aborted">>,
     <<"Reading", "Reading">>, <<"Reading", "UnitConverting">>,
     <<"Reading", "Aborted">>,
     <<"UnitConverting", "Closing">>, <<"Closing", "Done">>}

C20_Step ==
    /\ <<pc, pc'>> \in Order
    /\ (pc = "Reading" /\ pc' = "Reading") =>
          /\ stream'.nfreed > stream.nfreed
          /\ stream'.in >= stream.in
    /\ pc \in {"UnitConverting", "Closing"} =>
          /\ stream'.nalloc = stream.nalloc
          /\ stream'.in = stream.in
          /\ stream'.buffer = stream.buffer

\* C20: every load ends, with the record returned or aborted; every
\* iteration of the reading loop that does not abort has the line reader
\* pass at least one line; the load goes from defaulting to opening, to
\* reading, to unit conversion, to closing, to the return, never back; and
\* no line is read once unit conversion has started.
C20_Terminates ==
    /\ <>(Returned \/ Aborted)
    /\ [][C20_Step]_vars

\* A comment line, a blank line and a block with velocities were read.
C20_Witness ==
    /\ Returned
    /\ src = <<13, 14, 19>>
    /\ stream.nfreed = CountLines(file, 0)

====
